---- MODULE Spec2Model ----
(***************************************************************************)
(* analyzeCommand of command-args-viewer.ts: the command probe.            *)
(*                                                                         *)
(* The module has no state of its own.  The state below is the local state *)
(* of each running analyzeCommand call (its position, its commandId, the   *)
(* settled value of each awaited promise, its outcome), the host's command *)
(* registry, and the record of the host calls each probe has made.         *)
(* The host (vscode.commands) is the environment: it answers getCommands   *)
(* and executeCommand in separate steps, in any order, or never.           *)
(***************************************************************************)
EXTENDS Integers, Sequences, FiniteSets, TLC

VARIABLES registry, pc, commandId, getCommandsResp, executeResp,
          hostCalls, registeredAtDispatch, outcome

vars == <<registry, pc, commandId, getCommandsResp, executeResp,
          hostCalls, registeredAtDispatch, outcome>>

(* ------------------------------ bounds --------------------------------- *)

\* Number of analyzeCommand calls that may be in flight together.
NumCalls == 2

\* Number of distinct command identifiers.
NumIds == 2

\* Longest sequence the host's enumeration returns.
MaxEnumLen == 2

Calls == 1..NumCalls

Ids == 1..NumIds

\* commandId of a call that has not been made yet.
NoId == 0

(* --------------------------- JavaScript values ------------------------- *)

\* A JavaScript value is a pair <<type, payload>>.
Undefined == <<"undefined", "">>

Str(s) == <<"string", s>>

\* Messages an error object can carry; the empty string is a string.
MessageTexts == {"", "Argument 'uri' is required"}

\* The message of the host's error for a command that is not registered.
NotFoundText == "command not found"

\* Values a command can return.
ReturnValues == {Undefined, Str("result")}

\* What executeCommand can reject with: an error object with a message, an
\* object without one, a primitive string, null, undefined.
ErrorObject(m) == [type |-> "object", message |-> m]

ThrownValues ==
    {ErrorObject(Str(t)) : t \in MessageTexts}
        \cup {ErrorObject(Undefined),
              [type |-> "string", message |-> Undefined],
              [type |-> "null", message |-> Undefined],
              [type |-> "undefined", message |-> Undefined]}

NoThrown == [type |-> "none", message |-> Undefined]

\* The error the host rejects getCommands with.
RegistryUnavailable == [type |-> "object", message |-> Str("registry unavailable")]

\* Reading a property of null or undefined throws this.
TypeError == [type |-> "object", message |-> Str("TypeError")]

(* ------------------------------ promises ------------------------------- *)

PendingList == [status |-> "pending", value |-> <<>>, reason |-> NoThrown]

PendingExec == [status |-> "pending", value |-> Undefined, reason |-> NoThrown]

Range(s) == {s[i] : i \in 1..Len(s)}

\* The sequences the host can enumerate a registry as: every registered
\* identifier appears, in any order, duplicates allowed.
Enumerations(reg) ==
    {s \in UNION {[1..n -> Ids] : n \in 0..MaxEnumLen} : Range(s) = reg}

(* -------------------------- analyzeCommand ----------------------------- *)

\* Array.prototype.includes: a linear scan for an equal element.
RECURSIVE includes(_, _)
includes(arr, x) ==
    IF arr = <<>> THEN FALSE
    ELSE IF Head(arr) = x THEN TRUE
    ELSE includes(Tail(arr), x)

\* Slip: a module-level cache of the list, filled by the first call.
allCommandsCached(c) ==
    IF getCommandsResp[1].status = "fulfilled"
    THEN getCommandsResp[1].value
    ELSE getCommandsResp[c].value

\* const allCommands = await vscode.commands.getCommands();
allCommands(c) == getCommandsResp[c].value

\* Slip: membership read from the host's registry as it is now.
existsLive(c) == commandId[c] \in registry

\* Slip: !!allCommands.indexOf(commandId), true for -1 and false for 0.
existsIndexOfTruthy(c) ==
    ~(allCommands(c) # <<>> /\ Head(allCommands(c)) = commandId[c])

\* const exists = allCommands.includes(commandId);
exists(c) == includes(allCommands(c), commandId[c])

NoOutcome == [kind |-> "none", result |-> [none |-> TRUE], error |-> NoThrown]

Returned(r) == [kind |-> "returned", result |-> r, error |-> NoThrown]

Raised(e) == [kind |-> "raised", result |-> [none |-> TRUE], error |-> e]

Init ==
    /\ registry \in {r \in SUBSET Ids : Cardinality(r) <= MaxEnumLen}
    /\ pc = [c \in Calls |-> "idle"]
    /\ commandId = [c \in Calls |-> NoId]
    /\ getCommandsResp = [c \in Calls |-> PendingList]
    /\ executeResp = [c \in Calls |-> PendingExec]
    /\ hostCalls = [c \in Calls |-> <<>>]
    /\ registeredAtDispatch = [c \in Calls |-> "n/a"]
    /\ outcome = [c \in Calls |-> NoOutcome]

\* vscode.commands.getCommands(): the request made of the host.
getCommandsRequest == [op |-> "getCommands", command |-> NoId, args |-> <<>>]

\* analyzeCommand(id) is called: it runs to its first await.
analyzeCommand(c, id) ==
    /\ pc[c] = "idle"
    /\ pc' = [pc EXCEPT ![c] = "awaitGetCommands"]
    /\ commandId' = [commandId EXCEPT ![c] = id]
    /\ hostCalls' = [hostCalls EXCEPT ![c] =
                        Append(@, getCommandsRequest)]
    /\ UNCHANGED <<registry, getCommandsResp, executeResp,
                   registeredAtDispatch, outcome>>

(* ------------------------------- the host ------------------------------ *)

\* The host resolves getCommands() with an enumeration of its registry.
getCommandsFulfil(c, s) ==
    /\ pc[c] = "awaitGetCommands"
    /\ getCommandsResp[c].status = "pending"
    /\ s \in Enumerations(registry)
    /\ getCommandsResp' = [getCommandsResp EXCEPT ![c] =
                              [status |-> "fulfilled", value |-> s,
                               reason |-> NoThrown]]
    /\ UNCHANGED <<registry, pc, commandId, executeResp, hostCalls,
                   registeredAtDispatch, outcome>>

\* The host rejects getCommands(): the registry is unreachable.
getCommandsReject(c) ==
    /\ pc[c] = "awaitGetCommands"
    /\ getCommandsResp[c].status = "pending"
    /\ getCommandsResp' = [getCommandsResp EXCEPT ![c] =
                              [status |-> "rejected", value |-> <<>>,
                               reason |-> RegistryUnavailable]]
    /\ UNCHANGED <<registry, pc, commandId, executeResp, hostCalls,
                   registeredAtDispatch, outcome>>

\* The host dispatches executeCommand(commandId) and the command returns v.
executeCommandFulfil(c, v) ==
    /\ pc[c] = "awaitExecuteCommand"
    /\ executeResp[c].status = "pending"
    /\ commandId[c] \in registry
    /\ executeResp' = [executeResp EXCEPT ![c] =
                          [status |-> "fulfilled", value |-> v,
                           reason |-> NoThrown]]
    /\ registeredAtDispatch' = [registeredAtDispatch EXCEPT ![c] = "yes"]
    /\ UNCHANGED <<registry, pc, commandId, getCommandsResp, hostCalls,
                   outcome>>

\* The host dispatches executeCommand(commandId) and the command throws e.
executeCommandReject(c, e) ==
    /\ pc[c] = "awaitExecuteCommand"
    /\ executeResp[c].status = "pending"
    /\ commandId[c] \in registry
    /\ executeResp' = [executeResp EXCEPT ![c] =
                          [status |-> "rejected", value |-> Undefined,
                           reason |-> e]]
    /\ registeredAtDispatch' = [registeredAtDispatch EXCEPT ![c] = "yes"]
    /\ UNCHANGED <<registry, pc, commandId, getCommandsResp, hostCalls,
                   outcome>>

\* The host finds no command of that name to dispatch to: it rejects with
\* an error object carrying a message.
executeCommandNotFound(c) ==
    /\ pc[c] = "awaitExecuteCommand"
    /\ executeResp[c].status = "pending"
    /\ commandId[c] \notin registry
    /\ executeResp' = [executeResp EXCEPT ![c] =
                          [status |-> "rejected", value |-> Undefined,
                           reason |-> ErrorObject(Str(NotFoundText))]]
    /\ registeredAtDispatch' = [registeredAtDispatch EXCEPT ![c] = "no"]
    /\ UNCHANGED <<registry, pc, commandId, getCommandsResp, hostCalls,
                   outcome>>

\* Some extension registers a command.
registerCommand(id) ==
    /\ id \notin registry
    /\ Cardinality(registry) < MaxEnumLen
    /\ registry' = registry \cup {id}
    /\ UNCHANGED <<pc, commandId, getCommandsResp, executeResp, hostCalls,
                   registeredAtDispatch, outcome>>

\* Some extension disposes of a command's registration.
unregisterCommand(id) ==
    /\ id \in registry
    /\ registry' = registry \ {id}
    /\ UNCHANGED <<pc, commandId, getCommandsResp, executeResp, hostCalls,
                   registeredAtDispatch, outcome>>

(* -------------------- analyzeCommand, after each await ----------------- *)

\* `await p` resumes the function only once p has settled.
getCommandsSettled(c) == getCommandsResp[c].status # "pending"

\* Slip: a timeout that lets the call go on without the host's answer.
executeCommandTimedOut(c) == TRUE

executeCommandSettled(c) == executeResp[c].status # "pending"

\* Reading a property of null or undefined throws a TypeError.
propertyReadThrows(error) == error.type \in {"null", "undefined"}

\* Slip: error.message ?? '' (a missing message becomes the empty string).
errorMessageOrEmpty(error) ==
    IF error.type = "object" /\ error.message # Undefined
    THEN error.message
    ELSE Str("")

\* Slip: the truthiness test of inferCommandArgs, which drops the empty
\* string: error.message ? error.message : undefined.
errorMessageIfTruthy(error) ==
    IF error.type = "object" /\ error.message # Str("")
    THEN error.message
    ELSE Undefined

\* error.message: the object's message property; a primitive has none.
errorMessage(error) ==
    IF error.type = "object" THEN error.message ELSE Undefined

\* return { exists: false, canExecuteWithoutArgs: false };
notExistsResult == [exists |-> FALSE, canExecuteWithoutArgs |-> FALSE]

\* return { exists: true, canExecuteWithoutArgs: true };
successResult == [exists |-> TRUE, canExecuteWithoutArgs |-> TRUE]

\* Slip: canExecuteWithoutArgs taken from the truthiness of the command's
\* return value.
tryBlockTruthy(value) ==
    Returned([exists |-> TRUE, canExecuteWithoutArgs |-> value # Undefined])

\* The try block after the await: whatever the command returned is dropped.
tryBlock(value) == Returned(successResult)

\* Slip: executeCommand(commandId, undefined).
executeCommandRequestWithArg(c) ==
    [op |-> "executeCommand", command |-> commandId[c], args |-> <<Undefined>>]

\* vscode.commands.executeCommand(commandId): the request made of the host.
executeCommandRequest(c) ==
    [op |-> "executeCommand", command |-> commandId[c], args |-> <<>>]

\* The catch block: return { exists: true, canExecuteWithoutArgs: false,
\* errorMessage: error.message }, unless evaluating error.message throws.
catchBlock(error) ==
    IF propertyReadThrows(error)
    THEN Raised(TypeError)
    ELSE Returned([exists |-> TRUE, canExecuteWithoutArgs |-> FALSE,
                   errorMessage |-> errorMessage(error)])

\* The call continues after `await getCommands()`: a rejection propagates;
\* an unknown commandId returns at once; otherwise executeCommand(commandId)
\* is called with no further argument and awaited.
resumeAfterGetCommands(c) ==
    /\ pc[c] = "awaitGetCommands"
    /\ getCommandsSettled(c)
    /\ IF getCommandsResp[c].status = "rejected"
       THEN /\ pc' = [pc EXCEPT ![c] = "done"]
            /\ outcome' = [outcome EXCEPT ![c] = Raised(getCommandsResp[c].reason)]
            /\ UNCHANGED hostCalls
       ELSE IF ~exists(c)
       THEN /\ pc' = [pc EXCEPT ![c] = "done"]
            /\ outcome' = [outcome EXCEPT ![c] = Returned(notExistsResult)]
            /\ UNCHANGED hostCalls
       ELSE /\ pc' = [pc EXCEPT ![c] = "awaitExecuteCommand"]
            /\ hostCalls' = [hostCalls EXCEPT ![c] =
                                Append(@, executeCommandRequest(c))]
            /\ UNCHANGED outcome
    /\ UNCHANGED <<registry, commandId, getCommandsResp, executeResp,
                   registeredAtDispatch>>

\* The call continues after `await executeCommand(commandId)`.
resumeAfterExecuteCommand(c) ==
    /\ pc[c] = "awaitExecuteCommand"
    /\ executeCommandSettled(c)
    /\ pc' = [pc EXCEPT ![c] = "done"]
    /\ outcome' = [outcome EXCEPT ![c] =
                      IF executeResp[c].status = "fulfilled"
                      THEN tryBlock(executeResp[c].value)
                      ELSE catchBlock(executeResp[c].reason)]
    /\ UNCHANGED <<registry, commandId, getCommandsResp, executeResp,
                   hostCalls, registeredAtDispatch>>

Next ==
    \/ \E c \in Calls : \E id \in Ids : analyzeCommand(c, id)
    \/ \E c \in Calls : \E s \in Enumerations(registry) : getCommandsFulfil(c, s)
    \/ \E c \in Calls : getCommandsReject(c)
    \/ \E c \in Calls : resumeAfterGetCommands(c)
    \/ \E c \in Calls : \E v \in ReturnValues : executeCommandFulfil(c, v)
    \/ \E c \in Calls : \E e \in ThrownValues : executeCommandReject(c, e)
    \/ \E c \in Calls : executeCommandNotFound(c)
    \/ \E c \in Calls : resumeAfterExecuteCommand(c)
    \/ \E id \in Ids : registerCommand(id)
    \/ \E id \in Ids : unregisterCommand(id)

Spec == Init /\ [][Next]_vars

\* The event loop runs a continuation once its promise has settled.
FairSpec ==
    /\ Spec
    /\ \A c \in Calls : WF_vars(resumeAfterGetCommands(c))
    /\ \A c \in Calls : WF_vars(resumeAfterExecuteCommand(c))

(* ------------------------------ the claims ----------------------------- *)

done(c) == pc[c] = "done"

returned(c) == outcome[c].kind = "returned"

raised(c) == outcome[c].kind = "raised"

enumerated(c) == getCommandsResp[c].status = "fulfilled"

\* The identifiers the call's own enumeration held.
Enumerated(c) == Range(getCommandsResp[c].value)

invoked(c) ==
    \E i \in 1..Len(hostCalls[c]) : hostCalls[c][i].op = "executeCommand"

\* An errorMessage is present when the result has the field and the field
\* holds a value.
HasErrorMessage(r) == "errorMessage" \in DOMAIN r /\ r.errorMessage # Undefined

invocationFailed(c) == executeResp[c].status = "rejected"

\* The failure is an error object that carries a message.
failedWithMessage(c) ==
    /\ invocationFailed(c)
    /\ executeResp[c].reason.type = "object"
    /\ executeResp[c].reason.message # Undefined

\* C1: a commandId that is not in the call's enumeration is never passed to
\* the invoker, and the call returns exactly {exists: false,
\* canExecuteWithoutArgs: false}, without an errorMessage.
C1_UnknownCommandNotInvoked ==
    \A c \in Calls :
        (enumerated(c) /\ commandId[c] \notin Enumerated(c)) =>
            /\ ~invoked(c)
            /\ done(c) =>
                /\ outcome[c] = Returned([exists |-> FALSE,
                                          canExecuteWithoutArgs |-> FALSE])
                /\ "errorMessage" \notin DOMAIN outcome[c].result

C1_Witness ==
    \E c \in Calls :
        /\ done(c)
        /\ enumerated(c)
        /\ Enumerated(c) # {}
        /\ commandId[c] \notin Enumerated(c)
        /\ returned(c)

C3_NeverRaisesOnInvocationFailure ==
    \A c \in Calls :
        (done(c) /\ invocationFailed(c)) =>
            /\ returned(c)
            /\ outcome[c].result.exists
            /\ ~outcome[c].result.canExecuteWithoutArgs

\* C4: when the invocation fails with an error whose message is M, the call
\* returns exactly {exists: true, canExecuteWithoutArgs: false,
\* errorMessage: M}.
C4_MessageForwardedVerbatim ==
    \A c \in Calls :
        (done(c) /\ failedWithMessage(c)) =>
            outcome[c] = Returned([exists |-> TRUE,
                                   canExecuteWithoutArgs |-> FALSE,
                                   errorMessage |-> executeResp[c].reason.message])

C4_Witness ==
    \E c, d \in Calls :
        /\ done(c)
        /\ failedWithMessage(c)
        /\ outcome[c].result.errorMessage = Str("Argument 'uri' is required")
        /\ done(d)
        /\ failedWithMessage(d)
        /\ outcome[d].result.errorMessage = Str("")

\* C5: when the invocation completes without error, the call returns exactly
\* {exists: true, canExecuteWithoutArgs: true}, without an errorMessage,
\* whatever the command returned.
C5_SuccessResult ==
    \A c \in Calls :
        (done(c) /\ executeResp[c].status = "fulfilled") =>
            /\ outcome[c] = Returned([exists |-> TRUE,
                                      canExecuteWithoutArgs |-> TRUE])
            /\ "errorMessage" \notin DOMAIN outcome[c].result

C5_Witness ==
    \E c, d \in Calls :
        /\ done(c)
        /\ executeResp[c].status = "fulfilled"
        /\ executeResp[c].value = Undefined
        /\ done(d)
        /\ executeResp[d].status = "fulfilled"
        /\ executeResp[d].value # Undefined
        /\ returned(c)
        /\ returned(d)

\* C6: a failed enumeration is propagated to the caller without a call of the
\* invoker, and a call raises in no other situation.
C6_OnlyRegistryFailureRaises ==
    \A c \in Calls :
        /\ (done(c) /\ getCommandsResp[c].status = "rejected") =>
                /\ outcome[c] = Raised(getCommandsResp[c].reason)
                /\ ~invoked(c)
        /\ raised(c) => getCommandsResp[c].status = "rejected"

\* What a call that runs alone makes of its commandId and of the answers to
\* its own two requests.
OutcomeOfOwnResponses(id, list, exec) ==
    IF list.status = "rejected" THEN Raised(list.reason)
    ELSE IF id \notin Range(list.value)
    THEN Returned([exists |-> FALSE, canExecuteWithoutArgs |-> FALSE])
    ELSE IF exec.status = "fulfilled"
    THEN Returned([exists |-> TRUE, canExecuteWithoutArgs |-> TRUE])
    ELSE IF exec.reason.type \in {"null", "undefined"}
    THEN Raised(TypeError)
    ELSE Returned([exists |-> TRUE, canExecuteWithoutArgs |-> FALSE,
                   errorMessage |-> IF exec.reason.type = "object"
                                    THEN exec.reason.message
                                    ELSE Undefined])

\* C7: under every interleaving of the calls, the outcome of each completed
\* call is the one its own commandId, its own enumeration and its own
\* invocation determine; a call that has not completed has no outcome.
C7_CallsIndependent ==
    \A c \in Calls :
        IF done(c)
        THEN outcome[c] = OutcomeOfOwnResponses(commandId[c],
                                                getCommandsResp[c],
                                                executeResp[c])
        ELSE outcome[c] = NoOutcome

\* Two calls on the same commandId, both completed, whose own enumerations
\* differed and whose results differ accordingly.
C7_Witness ==
    \E c, d \in Calls :
        /\ c # d
        /\ done(c)
        /\ done(d)
        /\ commandId[c] = commandId[d]
        /\ returned(c)
        /\ returned(d)
        /\ outcome[c].result.exists
        /\ ~outcome[d].result.exists

\* C8: a call completes only after the enumeration has been answered and,
\* when the invoker was called, after the invocation has been answered; while
\* an answer is outstanding the call has no outcome; and a call whose
\* requests the host answers does complete.
C8_NoTimeout ==
    /\ [](\A c \in Calls :
            /\ done(c) => getCommandsResp[c].status # "pending"
            /\ (done(c) /\ invoked(c)) => executeResp[c].status # "pending"
            /\ (pc[c] = "awaitExecuteCommand"
                    /\ executeResp[c].status = "pending") => ~done(c))
    /\ \A c \in Calls :
            (/\ (pc[c] = "awaitGetCommands")
                    ~> (getCommandsResp[c].status # "pending")
             /\ (pc[c] = "awaitExecuteCommand")
                    ~> (executeResp[c].status # "pending"))
                => ((pc[c] # "idle") ~> done(c))

\* One call has completed after both of its requests were answered while
\* another still waits for its invocation.
C8_Witness ==
    \E c, d \in Calls :
        /\ done(c)
        /\ invoked(c)
        /\ executeResp[c].status # "pending"
        /\ pc[d] = "awaitExecuteCommand"
        /\ executeResp[d].status = "pending"
        /\ outcome[d] = NoOutcome

\* C9: a call asks for the enumeration exactly once and first, and calls the
\* invoker at most once, only after the enumeration has returned a sequence
\* that holds commandId, with that commandId and no argument.
C9_HostCallOrder ==
    \A c \in Calls :
        IF pc[c] = "idle"
        THEN hostCalls[c] = <<>>
        ELSE /\ Len(hostCalls[c]) \in {1, 2}
             /\ hostCalls[c][1].op = "getCommands"
             /\ Len(hostCalls[c]) = 2 =>
                    /\ hostCalls[c][2] = [op |-> "executeCommand",
                                          command |-> commandId[c],
                                          args |-> <<>>]
                    /\ enumerated(c)
                    /\ commandId[c] \in Enumerated(c)
             /\ (done(c) /\ invocationFailed(c)) => Len(hostCalls[c]) = 2

C9_Witness ==
    \E c \in Calls :
        /\ done(c)
        /\ invocationFailed(c)
        /\ Len(hostCalls[c]) = 2

\* C10: exists is membership in the enumerated sequence, whatever the
\* registry holds afterwards: a command removed before its dispatch yields
\* exists true and canExecuteWithoutArgs false, and a command registered
\* after the enumeration yields {exists: false, canExecuteWithoutArgs: false}
\* and is not invoked.
C10_ExistsAtEnumerationTime ==
    \A c \in Calls :
        /\ returned(c) =>
                (outcome[c].result.exists <=> commandId[c] \in Enumerated(c))
        /\ (done(c) /\ registeredAtDispatch[c] = "no") =>
                /\ returned(c)
                /\ outcome[c].result.exists
                /\ ~outcome[c].result.canExecuteWithoutArgs
        /\ (done(c) /\ enumerated(c) /\ commandId[c] \notin Enumerated(c)) =>
                /\ outcome[c] = Returned([exists |-> FALSE,
                                          canExecuteWithoutArgs |-> FALSE])
                /\ ~invoked(c)

\* One call's command was removed before its dispatch; the other's is
\* registered now but was not when the registry was enumerated.
C10_Witness ==
    \E c, d \in Calls :
        /\ done(c)
        /\ registeredAtDispatch[c] = "no"
        /\ outcome[c].result.exists
        /\ done(d)
        /\ commandId[d] \in registry
        /\ commandId[d] \notin Enumerated(d)
        /\ returned(d)
        /\ ~outcome[d].result.exists
====
